---- MODULE Spec2Model ----
(***************************************************************************)
(* LAN sync of the hands-free POS: the WebSocket server of                 *)
(* src-tauri/src/lan_sync/server.rs (the process-wide server slot, the     *)
(* accept loop, handle_connection and the broadcast channel).              *)
(*                                                                         *)
(* A connection handler is modelled step by step: one action per await     *)
(* point or Registry lock section of handle_connection.  The tokio         *)
(* broadcast channel is modelled by its documented behaviour: a ring that  *)
(* retains the newest BacklogCap values, one cursor per receiver, and      *)
(* RecvError::Lagged moving a cursor that fell behind to the oldest        *)
(* retained value.  A published message is identified by its position in   *)
(* the channel of its server.                                              *)
(*                                                                         *)
(* The client of src-tauri/src/lan_sync/client.rs (the process-wide client *)
(* slot, connect_lan_server, disconnect_lan_server and the session task    *)
(* connect spawns) is modelled against a peer that may answer, stay silent *)
(* or close at any time.                                                   *)
(***************************************************************************)
EXTENDS Integers, Sequences, FiniteSets, TLC

\* ---------------------------------------------------------------- bounds
\* Connections the accept loops handle in one run (each gets one client_id).
MaxConns == 2
\* Servers start_lan_server installs in one run.
MaxStarts == 2
\* Servers start_lan_server installs in a run that checks delivery.
MaxDeliveryStarts == 1
\* Messages the broadcast channels take in one run.
MaxPub == 2
\* Capacity of the broadcast channel: broadcast::channel(1000), scaled down.
BacklogCap == 1

\* Pings read by the session loops of one run, where they are counted.
MaxPings == 2

\* Calls of discover_lan_servers in one run.
MaxDiscovers == 1
\* Browse events one discover call receives before its deadline.
MaxBrowse == 2

\* LanClients connect_lan_server builds and connects in one run.
MaxConnects == 2
\* Domain messages the client sessions forward to the sink in one run.
MaxEvents == 1

Conns == 1..MaxConns
Gens == 1..MaxStarts
Clients == 1..MaxConnects
\* Tenant ids a Register can carry, and the one start_lan_server is given.
Tenants == {"t1", "t2"}
ServerTenants == {"t1"}

\* ---------------------------------------------------------------- state
VARIABLES
    slot,        \* LAN_SERVER: 0 for None, else the server installed
    nextGen,     \* servers installed so far
    server,      \* per server: tenant_id, is_running, mdns_daemon, advertised,
                 \* clients, published
    acceptLoop,  \* per server: the spawned accept task's position
    conn,        \* per connection: the state of its handle_connection task
    hist,        \* which of the handlers' history fields are recorded
    clientSlot,  \* LAN_CLIENT: 0 for None, else the LanClient stored
    nextClient,  \* LanClients connected so far
    lanClient,   \* per LanClient: its fields, its socket and its session task
    connecting,  \* the LanClient whose connect is waiting, under the write
                 \* lock of LAN_CLIENT, for the reply to Register; else 0
    sink,        \* what the client side has emitted to the app, in order
    wire,        \* a LanMessage on its way through serde_json: the value,
                 \* then its text, then what the text decodes to
    discovery    \* the discover_lan_servers call: its filter, the browse
                 \* events it has received, the servers collected, its result

serverVars == <<slot, nextGen, server, acceptLoop, conn>>
clientVars == <<clientSlot, nextClient, lanClient, connecting, sink>>
vars == <<slot, nextGen, server, acceptLoop, conn, hist,
          clientSlot, nextClient, lanClient, connecting, sink, wire, discovery>>

\* What no action of the server changes.
rest == <<hist, clientVars, wire, discovery>>

\* Result<_, String> of a command: Ok(val) or Err(err).
Ok(v) == [ok |-> TRUE, val |-> v, err |-> ""]
Err(e) == [ok |-> FALSE, val |-> 0, err |-> e]

\* ------------------------------------------------------------ LanMessage
\* A LanMessage is a record whose variant field names the enum variant.  A
\* JSON object is a record of its keys; the text of a frame is identified
\* with the JSON value it holds (NotJson for text that is no JSON object).
\* serde_json::Value payloads are opaque values that serde passes through.
JsonValues == {"null", "{\"id\":1}"}
DeviceTypes == {"Pos", "Kds", "Bds", "Manager"}
ServerInfos ==
    {[server_id |-> "s1", tenant_id |-> t, connected_clients |-> n, server_time |-> "ts"] :
        t \in Tenants, n \in 0..1}

\* Every variant of LanMessage, with a few values for each field.
Messages ==
    {[variant |-> "OrderCreated", order |-> o, kitchen_order |-> k] :
        o \in JsonValues, k \in JsonValues}
    \cup {[variant |-> "OrderStatusUpdate", order_id |-> i, status |-> st, updated_at |-> "ts"] :
        i \in {"id1", "id2"}, st \in {"preparing", "ready"}}
    \cup {[variant |-> "SyncState", orders |-> os] :
        os \in {<<>>, <<"null">>, <<"null", "{\"id\":1}">>}}
    \cup {[variant |-> "Ping"], [variant |-> "Pong"]}
    \cup {[variant |-> "Register", device_type |-> d, tenant_id |-> t] :
        d \in DeviceTypes, t \in Tenants}
    \cup {[variant |-> "Registered", client_id |-> id, server_info |-> si] :
        id \in {"id1", "id2"}, si \in ServerInfos}
    \cup {[variant |-> "Error", message |-> e, code |-> cd] :
        e \in {"Tenant ID mismatch", "other"}, cd \in {"TENANT_MISMATCH", "OTHER"}}

\* #[serde(rename_all = "lowercase")] of DeviceType
DeviceType_encode(d) ==
    CASE d = "Pos" -> "pos"
      [] d = "Kds" -> "kds"
      [] d = "Bds" -> "bds"
      [] d = "Manager" -> "manager"

DeviceType_decode(str) ==
    CASE str = "pos" -> Ok("Pos")
      [] str = "kds" -> Ok("Kds")
      [] str = "bds" -> Ok("Bds")
      [] str = "manager" -> Ok("Manager")
      [] OTHER -> Err("unknown variant")

\* #[serde(rename_all = "camelCase")] of ServerInfo
ServerInfo_encode(si) ==
    [serverId |-> si.server_id, tenantId |-> si.tenant_id,
     connectedClients |-> si.connected_clients, serverTime |-> si.server_time]

\* ---- mutant: a decoder that looks for the keys of ServerInfo under the
\* names of the Rust fields.
ServerInfo_decode_SnakeCase(j) ==
    IF {"server_id", "tenant_id", "connected_clients", "server_time"} \subseteq DOMAIN j
    THEN Ok([server_id |-> j.server_id, tenant_id |-> j.tenant_id,
             connected_clients |-> j.connected_clients, server_time |-> j.server_time])
    ELSE Err("missing field")

ServerInfo_decode(j) ==
    IF {"serverId", "tenantId", "connectedClients", "serverTime"} \subseteq DOMAIN j
    THEN Ok([server_id |-> j.serverId, tenant_id |-> j.tenantId,
             connected_clients |-> j.connectedClients, server_time |-> j.serverTime])
    ELSE Err("missing field")

\* serde_json::to_string of a LanMessage: #[serde(tag = "type", rename_all =
\* "snake_case")] puts the variant's name in snake case under the key "type"
\* next to the variant's fields, which keep their Rust names.
LanMessage_encode(m) ==
    CASE m.variant = "OrderCreated" ->
            [type |-> "order_created", order |-> m.order, kitchen_order |-> m.kitchen_order]
      [] m.variant = "OrderStatusUpdate" ->
            [type |-> "order_status_update", order_id |-> m.order_id,
             status |-> m.status, updated_at |-> m.updated_at]
      [] m.variant = "SyncState" -> [type |-> "sync_state", orders |-> m.orders]
      [] m.variant = "Ping" -> [type |-> "ping"]
      [] m.variant = "Pong" -> [type |-> "pong"]
      [] m.variant = "Register" ->
            [type |-> "register", device_type |-> DeviceType_encode(m.device_type),
             tenant_id |-> m.tenant_id]
      [] m.variant = "Registered" ->
            [type |-> "registered", client_id |-> m.client_id,
             server_info |-> ServerInfo_encode(m.server_info)]
      [] m.variant = "Error" ->
            [type |-> "error", message |-> m.message, code |-> m.code]

\* serde_json::from_str::<LanMessage>: the variant is chosen by the value
\* under "type"; each field of the variant must be there and decode; keys
\* the variant does not have are ignored.
LanMessage_decode(j) ==
    IF "type" \notin DOMAIN j THEN Err("missing field type")
    ELSE CASE j.type = "order_created" /\ {"order", "kitchen_order"} \subseteq DOMAIN j ->
                Ok([variant |-> "OrderCreated", order |-> j.order, kitchen_order |-> j.kitchen_order])
           [] j.type = "order_status_update" /\ {"order_id", "status", "updated_at"} \subseteq DOMAIN j ->
                Ok([variant |-> "OrderStatusUpdate", order_id |-> j.order_id,
                    status |-> j.status, updated_at |-> j.updated_at])
           [] j.type = "sync_state" /\ "orders" \in DOMAIN j ->
                Ok([variant |-> "SyncState", orders |-> j.orders])
           [] j.type = "ping" -> Ok([variant |-> "Ping"])
           [] j.type = "pong" -> Ok([variant |-> "Pong"])
           [] j.type = "register" /\ {"device_type", "tenant_id"} \subseteq DOMAIN j ->
                IF DeviceType_decode(j.device_type).ok
                THEN Ok([variant |-> "Register",
                         device_type |-> DeviceType_decode(j.device_type).val,
                         tenant_id |-> j.tenant_id])
                ELSE Err("unknown variant")
           [] j.type = "registered" /\ {"client_id", "server_info"} \subseteq DOMAIN j ->
                IF ServerInfo_decode(j.server_info).ok
                THEN Ok([variant |-> "Registered", client_id |-> j.client_id,
                         server_info |-> ServerInfo_decode(j.server_info).val])
                ELSE Err("missing field")
           [] j.type = "error" /\ {"message", "code"} \subseteq DOMAIN j ->
                Ok([variant |-> "Error", message |-> j.message, code |-> j.code])
           [] OTHER -> Err("unknown variant or missing field")

\* No message is on its way.
NoWire == [stage |-> "none"]

\* Text that does not decode: no JSON object, an unknown discriminant, a
\* known discriminant with a field missing.
NotJson == [notjson |-> TRUE]
Undecodable ==
    {NotJson, [type |-> "bogus"], [type |-> "order_created", order |-> "null"],
     [type |-> "register", device_type |-> "tablet", tenant_id |-> "t1"]}

\* The messages a peer sends on an established session in the model: one of
\* each variant.
SessionMessages ==
    {[variant |-> "OrderCreated", order |-> "{\"id\":1}", kitchen_order |-> "null"],
     [variant |-> "OrderStatusUpdate", order_id |-> "id1", status |-> "ready", updated_at |-> "ts"],
     [variant |-> "SyncState", orders |-> <<"null">>],
     [variant |-> "Ping"], [variant |-> "Pong"],
     [variant |-> "Register", device_type |-> "Kds", tenant_id |-> "t1"],
     [variant |-> "Registered", client_id |-> "id1",
      server_info |-> [server_id |-> "s1", tenant_id |-> "t1",
                       connected_clients |-> 0, server_time |-> "ts"]],
     [variant |-> "Error", message |-> "other", code |-> "OTHER"]}

\* What ws_receiver.next() can yield in a session loop, on either side.
Frames ==
    {[frame |-> "text", json |-> j] :
        j \in {LanMessage_encode(m) : m \in SessionMessages} \cup Undecodable}
    \cup {[frame |-> f, json |-> NotJson] : f \in {"binary", "error", "closed"}}

\* No discover call has been made: LanClient::discover_servers keeps nothing
\* between calls.
NoDiscovery ==
    [pc |-> "idle", calls |-> 0, filter |-> {}, seen |-> <<>>, servers |-> <<>>,
     stopped |-> {}, res |-> [ok |-> TRUE, val |-> 0, err |-> ""]]

\* LanServer::new: not running, nothing advertised, empty Registry, new channel.
LanServer_new(t) ==
    [tenant_id |-> t, is_running |-> FALSE, mdns_daemon |-> FALSE,
     advertised |-> FALSE, clients |-> {}, published |-> 0]

\* A handler's record holds what the task itself holds (pc, gen, the
\* receiver's cursor, the select! branch state) and history fields that
\* record what it has done on its socket and to the sink: first and tenant
\* (the first frame read), ack (connected_clients of the reply built), sent
\* (the reply written), fwd and lost (positions forwarded and skipped),
\* admAt (messages published when the session was inserted), inserted and
\* events.  No action reads a history field in a guard, so leaving first,
\* tenant, ack, sent, admAt, inserted and events unrecorded (hist = {})
\* changes no behaviour of the program.  pings and pongs (Ping frames read
\* and Pong frames written in the session loop) are recorded where hist has
\* "pings".
Rec(v, unrecorded) == IF "handshake" \in hist THEN v ELSE unrecorded
RecPing(v, unrecorded) == IF "pings" \in hist THEN v ELSE unrecorded

\* A handle_connection task that has not been spawned yet.
NoConn ==
    [pc |-> "idle", gen |-> 0, first |-> "none", tenant |-> "",
     ack |-> -1, sent |-> "none", cursor |-> 0, disabled |-> FALSE,
     fwd |-> <<>>, lost |-> {}, admAt |-> -1,
     inserted |-> FALSE, events |-> {}, pings |-> 0, pongs |-> 0]

\* A handler that has left its session loop (pc "remove"), or returned (pc
\* "done", its socket halves and broadcast receiver dropped): what the peer
\* sent first, what it was answered, whether the handler ever put a session
\* into the Registry and what it emitted stay on record.
Left(h, pc) ==
    [NoConn EXCEPT !.pc = pc, !.gen = IF pc = "done" THEN Rec(h.gen, 0) ELSE h.gen,
                   !.first = h.first, !.tenant = h.tenant,
                   !.sent = h.sent, !.inserted = h.inserted,
                   !.events = h.events, !.pings = h.pings, !.pongs = h.pongs]
Finished(h) == Left(h, "done")

\* LanClient::new, with the task and socket state of a connect not yet made:
\* pc is "none", then "awaitReply" while connect waits for the reply, then
\* "loop" while the spawned session task runs and "exited" when it has
\* ended, or "failed" when connect returned an error.
LanClient_new ==
    [is_connected |-> FALSE, client_id |-> FALSE, server_address |-> FALSE,
     server_info |-> FALSE, connected_at |-> FALSE, stop_signal |-> FALSE,
     pc |-> "none", reply |-> "none", stopSent |-> FALSE, stream |-> "none"]

InitClient ==
    /\ clientSlot = 0
    /\ nextClient = 0
    /\ lanClient = [k \in Clients |-> LanClient_new]
    /\ connecting = 0
    /\ sink = <<>>

Init ==
    /\ slot = 0
    /\ nextGen = 0
    /\ server = [g \in Gens |-> LanServer_new("t1")]
    /\ acceptLoop = [g \in Gens |-> "none"]
    /\ conn = [c \in Conns |-> NoConn]
    /\ hist = {"handshake"}
    /\ InitClient
    /\ wire = NoWire
    /\ discovery = NoDiscovery

\* ------------------------------------------------------ broadcast channel
\* Receiver handles alive on server g's channel: a handler subscribes right
\* after the WebSocket upgrade and drops its receiver when it returns.
Subscribed(c) == conn[c].pc \notin {"idle", "done"}
Receivers(g) == {c \in Conns : conn[c].gen = g /\ Subscribed(c)}

\* ---- mutants of the channel and of LanServer::broadcast
\* LanServer::broadcast with the send error passed on instead of unwrap_or(0).
LanServer_broadcast_Propagate(g) ==
    LET n == Cardinality({c \in Conns : conn[c].gen = g /\ conn[c].pc \notin {"idle", "done"}}) IN
    IF n = 0 THEN [ok |-> FALSE, val |-> 0, err |-> "Failed to send"]
    ELSE [ok |-> TRUE, val |-> n, err |-> ""]

\* Position of the oldest value the ring still retains after n sends.
Oldest(n) == IF n > BacklogCap THEN n - BacklogCap + 1 ELSE 1

\* broadcast::Sender::send: Err when there is no receiver (the value is not
\* queued), else the value is queued and the number of receivers returned.
Sender_send(g) ==
    LET n == Cardinality(Receivers(g)) IN
    IF n = 0 THEN Err("SendError") ELSE Ok(n)

\* LanServer::broadcast: Ok(broadcast_tx.send(json).unwrap_or(0))
LanServer_broadcast(g) ==
    IF Sender_send(g).ok THEN Ok(Sender_send(g).val) ELSE Ok(0)

RECURSIVE PublishedUpTo(_)
PublishedUpTo(g) == IF g = 0 THEN 0 ELSE server[g].published + PublishedUpTo(g - 1)
TotalPublished == PublishedUpTo(MaxStarts)

\* ---------------------------------------------------------------- commands
\* ---- mutant: the port can be bound while another listener holds it.
PortHeld_Never == FALSE

\* The listener lives in the accept task: the port is held until the task ends.
PortHeld == \E g \in Gens : acceptLoop[g] = "select"

\* LanServer::start on the server s just built, given whether another process
\* holds the port and whether register_mdns succeeds: the result, the server
\* as start leaves it, and whether the accept task was spawned (it owns the
\* listener).  is_running is stored before register_mdns()? can return.
LanServer_start(s, portBusy, mdnsOk) ==
    IF s.is_running
    THEN [res |-> Err("LAN server is already running"), server |-> s, spawned |-> FALSE]
    ELSE IF PortHeld \/ portBusy
    THEN [res |-> Err("Failed to bind"), server |-> s, spawned |-> FALSE]
    ELSE IF ~mdnsOk
    THEN [res |-> Err("Failed to create mDNS daemon"),
          server |-> [s EXCEPT !.is_running = TRUE], spawned |-> FALSE]
    ELSE [res |-> Ok(0),
          server |-> [s EXCEPT !.is_running = TRUE, !.mdns_daemon = TRUE,
                               !.advertised = TRUE],
          spawned |-> TRUE]

\* ---- mutant: the slot is not looked at before a server is built and started.
start_outcome_NoSlotCheck(t, portBusy, mdnsOk) ==
    LanServer_start(LanServer_new(t), portBusy, mdnsOk)

\* start_lan_server up to the `?`: with a server in the slot it returns at
\* once, else it builds a LanServer and starts it.
start_outcome(t, portBusy, mdnsOk) ==
    IF slot # 0
    THEN [res |-> Err("LAN server is already running"),
          server |-> LanServer_new(t), spawned |-> FALSE]
    ELSE LanServer_start(LanServer_new(t), portBusy, mdnsOk)

\* What start_lan_server returns in the current state.
start_result(portBusy, mdnsOk) == start_outcome("t1", portBusy, mdnsOk).res

\* ---- mutant: the server is stored in the slot whatever start returned.
Installs_Always(res) == TRUE

\* `let address = server.start(app_handle).await?;` an error returns before
\* `*server_lock = Some(server)`, and the LanServer built for the call is
\* dropped with its listener.
Installs(res) == res.ok

\* The whole command runs under the write lock of LAN_SERVER.
start_lan_server ==
    \E t \in ServerTenants, portBusy \in BOOLEAN, mdnsOk \in BOOLEAN :
        LET st == start_outcome(t, portBusy, mdnsOk) IN
        IF Installs(st.res)
        THEN /\ nextGen < MaxStarts
             /\ nextGen' = nextGen + 1
             /\ server' = [server EXCEPT ![nextGen + 1] = st.server]
             /\ acceptLoop' = [acceptLoop EXCEPT ![nextGen + 1] =
                    IF st.spawned THEN "select" ELSE "none"]
             /\ slot' = nextGen + 1
             /\ UNCHANGED <<conn, rest>>
        ELSE UNCHANGED vars

\* LanServer::stop: clears is_running, takes the mDNS daemon handle and asks
\* the daemon to shut down (`let _ = mdns.shutdown()`: neither the result nor
\* the status channel it returns is looked at), clears the Registry.
LanServer_stop(g) ==
    [server EXCEPT ![g].is_running = FALSE,
                   ![g].mdns_daemon = FALSE,
                   ![g].clients = {}]

stop_result == Ok(0)

\* The slot and the servers as a call of stop_lan_server leaves them.
StopAgain ==
    [slot |-> 0, server |-> IF slot # 0 THEN LanServer_stop(slot) ELSE server]

\* ---- mutant: the stopped server is left in the slot.
stop_lan_server_KeepsSlot ==
    /\ server' = IF slot # 0 THEN LanServer_stop(slot) ELSE server
    /\ slot' = slot
    /\ UNCHANGED <<nextGen, acceptLoop, conn, rest>>

stop_lan_server ==
    /\ server' = IF slot # 0 THEN LanServer_stop(slot) ELSE server
    /\ slot' = 0
    /\ UNCHANGED <<nextGen, acceptLoop, conn, rest>>

\* get_lan_server_status: LanServer::status of the server in the slot, or the
\* fixed answer for an empty slot.
get_lan_server_status ==
    IF slot = 0
    THEN [is_running |-> FALSE, mdns_registered |-> FALSE, connected_clients |-> {}]
    ELSE [is_running |-> server[slot].is_running,
          mdns_registered |-> server[slot].mdns_daemon,
          connected_clients |-> server[slot].clients]

\* What broadcast_order and broadcast_order_status return in the current state.
broadcast_result ==
    IF slot = 0 THEN Err("LAN server is not running") ELSE LanServer_broadcast(slot)

\* Both commands build their LanMessage and call LanServer::broadcast; the
\* channel is modelled by positions, so the state they leave is the same.
BroadcastCommand ==
    IF slot # 0 /\ Sender_send(slot).ok
    THEN /\ TotalPublished < MaxPub
         /\ server' = [server EXCEPT ![slot].published = @ + 1]
         /\ UNCHANGED <<slot, nextGen, acceptLoop, conn, rest>>
    ELSE UNCHANGED vars

broadcast_order == BroadcastCommand

broadcast_order_status == BroadcastCommand

\* ------------------------------------------------------------- accept loop
\* The accept task is either waiting in its select! ("select": it has read
\* is_running as true and holds the listener) or has left its loop
\* ("exited": the listener is dropped and the port free).  After either
\* branch of the select! the loop reads is_running again.
AfterSelect(g) == IF server[g].is_running THEN "select" ELSE "exited"

\* select!: the 100 ms sleep wins.
AcceptLoopSleep(g) ==
    /\ acceptLoop[g] = "select"
    /\ acceptLoop' = [acceptLoop EXCEPT ![g] = AfterSelect(g)]
    /\ UNCHANGED <<slot, nextGen, server, conn, rest>>

\* Connections are taken in the order of their labels: a client_id is a fresh
\* UUID, so which label the next connection gets makes no difference.
NextConn(c) == conn[c].pc = "idle" /\ \A d \in Conns : d < c => conn[d].pc # "idle"

\* ---- mutant: every connection is given the same client_id.
ClientId_Same(c) == 1

\* let client_id = Uuid::new_v4().to_string(): a value no other connection
\* has.  The connection's label stands for it.
ClientId(c) == c

\* handle_connection up to its first read: the WebSocket upgrade (which may
\* fail, ending the task), the client_id and broadcast_tx.subscribe().
Upgrade(c, g, ok) ==
    IF ok
    THEN [conn[c] EXCEPT !.pc = "await", !.gen = g,
                         !.cursor = server[g].published + 1]
    ELSE Finished(conn[c])

\* select!: listener.accept() wins and the handler task is spawned.
AcceptLoopAccept(g, c) ==
    /\ acceptLoop[g] = "select"
    /\ NextConn(c)
    /\ \E ok \in BOOLEAN : conn' = [conn EXCEPT ![c] = Upgrade(c, g, ok)]
    /\ acceptLoop' = [acceptLoop EXCEPT ![g] = AfterSelect(g)]
    /\ UNCHANGED <<slot, nextGen, server, rest>>

\* -------------------------------------------------------- handle_connection
\* What ws_receiver.next() can yield first: a text frame holding a Register,
\* a text frame holding another LanMessage, a text frame that does not parse,
\* a non-text frame, an error, or the end of the stream.
FirstMsgs ==
    {[frame |-> "text", type |-> "register", tenant |-> t] : t \in Tenants}
    \cup {[frame |-> f, type |-> ty, tenant |-> ""] :
            f \in {"text"}, ty \in {"ping", "unparseable"}}
    \cup {[frame |-> f, type |-> "", tenant |-> ""] :
            f \in {"binary", "error", "closed"}}

\* if let Some(Ok(msg)) / if let Message::Text / if let Ok(Register {..})
IsRegister(m) == m.frame = "text" /\ m.type = "register"

\* ---- mutant: the tenant comparison left out.
AfterFirst_NoTenantCheck(m, serverTenant) ==
    IF m.frame = "text" /\ m.type = "register" THEN "sendAck" ELSE "insert"

\* The handler's position after the first read.  A Register of another tenant
\* is answered with Error; a Register of this tenant gets its reply built; in
\* every other case none of the nested `if let`s matches and control falls
\* through to "Add client to the list".
AfterFirst(m, serverTenant) ==
    IF IsRegister(m)
    THEN IF m.tenant # serverTenant THEN "reject" ELSE "sendAck"
    ELSE "insert"

\* ---- mutant: the count taken as if the session were already inserted.
ConnectedClients_CountsSelf(g) == Cardinality(server[g].clients) + 1

\* ServerInfo.connected_clients: clients_lock.len() under the Registry lock.
ConnectedClients(g) == Cardinality(server[g].clients)

RecvFirst(c) ==
    /\ conn[c].pc = "await"
    /\ \E m \in FirstMsgs :
        LET g == conn[c].gen
            next == AfterFirst(m, server[g].tenant_id) IN
        conn' = [conn EXCEPT ![c] =
            [@ EXCEPT !.pc = next,
                      !.first = Rec(IF IsRegister(m) THEN "register" ELSE "other", @),
                      !.tenant = Rec(m.tenant, @),
                      !.ack = Rec(IF next = "sendAck" THEN ConnectedClients(g) ELSE -1, @)]]
    /\ UNCHANGED <<slot, nextGen, server, acceptLoop, rest>>

\* let _ = ws_sender.send(Error{TENANT_MISMATCH}); return Ok(())
SendError(c) ==
    /\ conn[c].pc = "reject"
    /\ conn' = [conn EXCEPT ![c] = Finished([@ EXCEPT !.sent = Rec("Error", @)])]
    /\ UNCHANGED <<slot, nextGen, server, acceptLoop, rest>>

\* ---- mutant: the result of sending Registered ignored (let _ = ..).
AfterAckSend_Ignored(ok) == "insert"

\* ws_sender.send(Registered).await? : a failed send returns the error.
AfterAckSend(ok) == IF ok THEN "insert" ELSE "done"

SendAck(c) ==
    /\ conn[c].pc = "sendAck"
    /\ \E ok \in BOOLEAN :
        conn' = [conn EXCEPT ![c] =
            LET h == [@ EXCEPT !.sent = IF ok THEN Rec("Registered", @) ELSE @] IN
            IF AfterAckSend(ok) = "done"
            THEN Finished(h)
            ELSE [h EXCEPT !.pc = AfterAckSend(ok)]]
    /\ UNCHANGED <<slot, nextGen, server, acceptLoop, rest>>

\* clients_lock.insert(client_id, ClientSession {..})
Insert(c) ==
    /\ conn[c].pc = "insert"
    /\ LET g == conn[c].gen IN
        /\ server' = [server EXCEPT ![g].clients = @ \cup {ClientId(c)}]
        /\ conn' = [conn EXCEPT ![c] =
                [@ EXCEPT !.pc = "emit", !.inserted = Rec(TRUE, @), !.ack = -1,
                          !.admAt = Rec(server[g].published, @)]]
    /\ UNCHANGED <<slot, nextGen, acceptLoop, rest>>

\* app_handle.emit("lan_client_connected", ..)
EmitConnected(c) ==
    /\ conn[c].pc = "emit"
    /\ conn' = [conn EXCEPT ![c] =
            [@ EXCEPT !.pc = "loop", !.events = Rec(@ \cup {"connected"}, @)]]
    /\ UNCHANGED <<slot, nextGen, server, acceptLoop, rest>>

\* ---- mutant: a Pong from the peer is answered with a Pong as well.
OnClientFrame_AnswersPong(f) ==
    [break |-> f.frame = "closed",
     reply |-> IF f.frame = "text" /\ LanMessage_decode(f.json).ok
                  /\ LanMessage_decode(f.json).val.variant \in {"Ping", "Pong"}
               THEN <<LanMessage_encode([variant |-> "Pong"])>> ELSE <<>>]

\* ---- mutant: text that does not decode ends the session.
OnClientFrame_StrictText(f) ==
    [break |-> f.frame = "closed" \/ (f.frame = "text" /\ ~LanMessage_decode(f.json).ok),
     reply |-> IF f.frame = "text" /\ LanMessage_decode(f.json).ok
                  /\ LanMessage_decode(f.json).val.variant = "Ping"
               THEN <<LanMessage_encode([variant |-> "Pong"])>> ELSE <<>>]

\* Session loop, ws branch, for what the socket yields: text that decodes to
\* Ping is answered with a Pong, Close or the end of the stream breaks the
\* loop, `_ => {}` takes every other frame and a read error.
OnClientFrame(f) ==
    [break |-> f.frame = "closed",
     reply |-> IF f.frame = "text" /\ LanMessage_decode(f.json).ok
                  /\ LanMessage_decode(f.json).val.variant = "Ping"
               THEN <<LanMessage_encode([variant |-> "Pong"])>> ELSE <<>>]

\* The frames that break the server's session loop, and those that do not.
BreakingFrames == {f \in Frames : OnClientFrame(f).break}
OtherFrames == {f \in Frames : ~OnClientFrame(f).break}

\* The text frame a peer's Ping arrives as.
PingFrame == [frame |-> "text", json |-> LanMessage_encode([variant |-> "Ping"])]

\* What the frames that do not break the loop make the handler do: whether
\* the frame was a Ping, and what the handler writes back.
ClientFrameEffects ==
    {[ping |-> f = PingFrame, reply |-> OnClientFrame(f).reply] : f \in OtherFrames}

\* Where pings and pongs are not on record every effect leaves the handler
\* in the same state, and one stands for all.
CountedEffects ==
    IF "pings" \in hist THEN ClientFrameEffects
    ELSE {CHOOSE e \in ClientFrameEffects : TRUE}

\* The Ping frames counted so far.
RECURSIVE TotalPings(_)
TotalPings(n) == IF n = 0 THEN 0 ELSE conn[n].pings + TotalPings(n - 1)

\* Session loop, ws branch, a frame that does not break the loop: the reply,
\* if any, is written with `let _ = ws_sender.send(..).await`, whose result
\* is not looked at.  The loop goes round, so a broadcast branch that select!
\* had disabled is polled again.
LoopClientMsg(c) ==
    /\ conn[c].pc = "loop"
    /\ \E e \in CountedEffects :
        /\ (e.ping /\ "pings" \in hist) => TotalPings(MaxConns) < MaxPings
        /\ conn' = [conn EXCEPT ![c] =
                [@ EXCEPT !.disabled = FALSE,
                          !.pings = RecPing(IF e.ping THEN @ + 1 ELSE @, @),
                          !.pongs = RecPing(@ + Len(e.reply), @)]]
    /\ UNCHANGED <<slot, nextGen, server, acceptLoop, rest>>

\* Session loop, ws branch: Some(Ok(Close)) | None => break
LoopClose(c) ==
    /\ conn[c].pc = "loop"
    /\ BreakingFrames # {}
    /\ conn' = [conn EXCEPT ![c] = Left(@, "remove")]
    /\ UNCHANGED <<slot, nextGen, server, acceptLoop, rest>>

\* ---- mutant: a lagging receiver skips everything queued, not only what
\* the ring has overwritten.
OnLagged_SkipAll(h, n) ==
    [h EXCEPT !.cursor = n + 1,
              !.lost = @ \cup (h.cursor .. n),
              !.disabled = TRUE]

\* ---- mutant: the value at the cursor is forwarded, the cursor stays.
OnMessage_NoAdvance(h, ok) ==
    IF ok
    THEN [h EXCEPT !.fwd = Append(@, h.cursor)]
    ELSE [NoConn EXCEPT !.pc = "remove", !.gen = h.gen, !.first = h.first,
                        !.tenant = h.tenant, !.sent = h.sent,
                        !.inserted = h.inserted, !.events = h.events]

\* broadcast_rx.recv() of a receiver that fell behind: Err(Lagged), and the
\* cursor moves to the oldest retained value.  `Ok(msg) = ..` does not match,
\* so select! disables the branch and keeps waiting on the socket.
OnLagged(h, n) ==
    [h EXCEPT !.cursor = Oldest(n),
              !.lost = @ \cup (h.cursor .. Oldest(n) - 1),
              !.disabled = TRUE]

\* broadcast_rx.recv() yields the value at the cursor, which is then written
\* to the socket; a failed write breaks out of the loop.
OnMessage(h, ok) ==
    IF ok
    THEN [h EXCEPT !.cursor = @ + 1, !.fwd = Append(@, h.cursor)]
    ELSE Left(h, "remove")

BroadcastRecv(c) ==
    /\ conn[c].pc = "loop"
    /\ ~conn[c].disabled
    /\ LET n == server[conn[c].gen].published IN
        IF conn[c].cursor < Oldest(n)
        THEN conn' = [conn EXCEPT ![c] = OnLagged(conn[c], n)]
        ELSE /\ conn[c].cursor <= n
             /\ \E ok \in BOOLEAN : conn' = [conn EXCEPT ![c] = OnMessage(conn[c], ok)]
    /\ UNCHANGED <<slot, nextGen, server, acceptLoop, rest>>

\* ---- mutant: the handler empties the Registry when it leaves.
Remove_ClearsAll(c) ==
    /\ conn[c].pc = "remove"
    /\ server' = [server EXCEPT ![conn[c].gen].clients = {}]
    /\ conn' = [conn EXCEPT ![c].pc = "emitdisc"]
    /\ UNCHANGED <<slot, nextGen, acceptLoop, rest>>

\* ---- mutant: the handler goes on to the notification without removing
\* its session.
Remove_Skipped(c) ==
    /\ conn[c].pc = "remove"
    /\ conn' = [conn EXCEPT ![c].pc = "emitdisc"]
    /\ UNCHANGED <<slot, nextGen, server, acceptLoop, rest>>

\* clients_lock.remove(&client_id)
Remove(c) ==
    /\ conn[c].pc = "remove"
    /\ server' = [server EXCEPT ![conn[c].gen].clients = @ \ {ClientId(c)}]
    /\ conn' = [conn EXCEPT ![c].pc = "emitdisc"]
    /\ UNCHANGED <<slot, nextGen, acceptLoop, rest>>

\* app_handle.emit("lan_client_disconnected", ..); the task returns and its
\* broadcast receiver is dropped.
EmitDisconnected(c) ==
    /\ conn[c].pc = "emitdisc"
    /\ conn' = [conn EXCEPT ![c] =
            Finished([@ EXCEPT !.events = Rec(@ \cup {"disconnected"}, @)])]
    /\ UNCHANGED <<slot, nextGen, server, acceptLoop, rest>>

\* ------------------------------------------------------------------ client
\* ---- mutant: disconnect sends the stop signal and clears the flag, but
\* leaves the connection fields as they are.
LanClient_disconnect_KeepsFields(h) ==
    [h EXCEPT !.stopSent = @ \/ (h.stop_signal /\ h.pc = "loop"),
              !.stop_signal = FALSE, !.is_connected = FALSE]

\* LanClient::disconnect: the stop signal is taken and sent (the result of the
\* send is ignored; it reaches a session task only while one is running),
\* is_connected is cleared and the connection fields are reset.
LanClient_disconnect(h) ==
    [h EXCEPT !.stopSent = @ \/ (h.stop_signal /\ h.pc = "loop"),
              !.stop_signal = FALSE, !.is_connected = FALSE,
              !.server_address = FALSE, !.server_info = FALSE,
              !.client_id = FALSE, !.connected_at = FALSE]

\* `if let Some(ref mut client) = *client_lock { client.disconnect().await?; }`
DisconnectExisting ==
    IF clientSlot # 0
    THEN [lanClient EXCEPT ![clientSlot] = LanClient_disconnect(@)]
    ELSE lanClient

\* What connect_lan_server returns before it waits for a reply, or "pending".
connect_begin_result(deviceOk, connOk, sendOk) ==
    IF ~deviceOk THEN Err("Invalid device type")
    ELSE IF ~connOk THEN Err("Failed to connect")
    ELSE IF ~sendOk THEN Err("Failed to send registration")
    ELSE Err("pending")

\* connect_lan_server up to the wait for the reply: the write lock is taken,
\* the device type parsed, the stored client disconnected, a LanClient built,
\* the WebSocket opened and Register sent.  The LanClient of a failed call is
\* dropped.
connect_lan_server ==
    /\ connecting = 0
    /\ \E deviceOk \in BOOLEAN, connOk \in BOOLEAN, sendOk \in BOOLEAN :
        LET r == connect_begin_result(deviceOk, connOk, sendOk).err IN
        IF r = "Invalid device type"
        THEN UNCHANGED vars
        ELSE IF r = "pending"
        THEN /\ nextClient < MaxConnects
             /\ lanClient' = [DisconnectExisting EXCEPT
                    ![nextClient + 1].pc = "awaitReply",
                    ![nextClient + 1].stream = "open"]
             /\ nextClient' = nextClient + 1
             /\ connecting' = nextClient + 1
             /\ UNCHANGED <<clientSlot, sink, serverVars, hist, wire, discovery>>
        ELSE /\ lanClient' = DisconnectExisting
             /\ UNCHANGED <<clientSlot, nextClient, connecting, sink, serverVars, hist, wire, discovery>>

\* What ws_receiver.next() can yield as the reply: a text frame holding
\* Registered, Error or another LanMessage, a text frame that does not parse,
\* a non-text frame, an error, or the end of the stream.
Replies ==
    {[frame |-> "text", type |-> ty] :
        ty \in {"registered", "error", "pong", "unparseable"}}
    \cup {[frame |-> f, type |-> ""] : f \in {"binary", "error", "closed"}}

\* ---- mutant: every LanMessage that parses is taken for the acknowledgment.
connect_reply_AnyVariant(m) ==
    IF m.frame # "text" THEN Err("No response from server")
    ELSE IF m.type = "unparseable" THEN Err("Unexpected response from server")
    ELSE Ok(0)

\* LanClient::connect on the reply: Ok only for Registered.
connect_reply(m) ==
    IF m.frame # "text" THEN Err("No response from server")
    ELSE IF m.type = "registered" THEN Ok(0)
    ELSE IF m.type = "error" THEN Err("Registration failed")
    ELSE Err("Unexpected response from server")

\* After Registered: the fields are stored, is_connected set, the stop channel
\* made, lan_connected emitted and the session task spawned.
OnRegistered(h) ==
    [h EXCEPT !.client_id = TRUE, !.server_info = TRUE, !.server_address = TRUE,
              !.is_connected = TRUE, !.connected_at = TRUE, !.stop_signal = TRUE,
              !.pc = "loop"]

\* connect_lan_server from the reply on: on Ok the LanClient is stored in the
\* slot; on an error the call returns it, the LanClient and its socket are
\* dropped and the slot keeps what it held.
ConnectReply(k) ==
    /\ connecting = k
    /\ \E m \in Replies :
        IF connect_reply(m).ok
        THEN /\ lanClient' = [lanClient EXCEPT ![k] =
                    OnRegistered([@ EXCEPT !.reply = m.type])]
             /\ sink' = Append(sink, <<"lan_connected", k>>)
             /\ clientSlot' = k
        ELSE /\ lanClient' = [lanClient EXCEPT ![k] =
                    [@ EXCEPT !.pc = "failed", !.stream = "closed",
                              !.reply = IF m.frame = "text" THEN m.type ELSE m.frame]]
             /\ UNCHANGED <<clientSlot, sink>>
    /\ connecting' = 0
    /\ UNCHANGED <<nextClient, serverVars, hist, wire, discovery>>

disconnect_result == Ok(0)

\* The slot and the LanClients as a call of disconnect_lan_server leaves them.
DisconnectAgain == [clientSlot |-> 0, lanClient |-> DisconnectExisting]

disconnect_lan_server ==
    /\ connecting = 0
    /\ lanClient' = DisconnectExisting
    /\ clientSlot' = 0
    /\ UNCHANGED <<nextClient, connecting, sink, serverVars, hist, wire, discovery>>

\* get_lan_client_status: LanClient::status of the stored client, or the fixed
\* answer for an empty slot.  It waits while a connect holds the write lock.
get_lan_client_status ==
    IF clientSlot = 0
    THEN [is_connected |-> FALSE, server_address |-> FALSE,
          server_info |-> FALSE, connected_at |-> FALSE]
    ELSE [is_connected |-> lanClient[clientSlot].is_connected,
          server_address |-> lanClient[clientSlot].server_address,
          server_info |-> lanClient[clientSlot].server_info,
          connected_at |-> lanClient[clientSlot].connected_at]

\* ------------------------------------------------------ client session task
\* What ws_receiver.next() can yield in the session loop.
Inbound == Frames

\* ---- mutant: the event of OrderCreated carries the kitchen order in both
\* places.
handle_message_KitchenOrderTwice(m) ==
    CASE m.variant = "OrderCreated" ->
            <<[kind |-> "lan_order_created",
               payload |-> [order |-> m.kitchen_order, kitchenOrder |-> m.kitchen_order]]>>
      [] m.variant = "OrderStatusUpdate" ->
            <<[kind |-> "lan_order_status_update",
               payload |-> [orderId |-> m.order_id, status |-> m.status,
                            updatedAt |-> m.updated_at]]>>
      [] m.variant = "SyncState" ->
            <<[kind |-> "lan_sync_state", payload |-> [orders |-> m.orders]]>>
      [] OTHER -> <<>>

\* handle_message: the events emitted for a message, each with the JSON
\* object it carries.
handle_message(m) ==
    CASE m.variant = "OrderCreated" ->
            <<[kind |-> "lan_order_created",
               payload |-> [order |-> m.order, kitchenOrder |-> m.kitchen_order]]>>
      [] m.variant = "OrderStatusUpdate" ->
            <<[kind |-> "lan_order_status_update",
               payload |-> [orderId |-> m.order_id, status |-> m.status,
                            updatedAt |-> m.updated_at]]>>
      [] m.variant = "SyncState" ->
            <<[kind |-> "lan_sync_state", payload |-> [orders |-> m.orders]]>>
      [] OTHER -> <<>>

\* Session loop, ws branch, for what the socket yields: text that decodes
\* goes to handle_message, Close or the end of the stream breaks the loop,
\* `_ => {}` takes every other frame and a read error.
OnInbound(f) ==
    [break |-> f.frame = "closed",
     events |-> IF f.frame = "text" /\ LanMessage_decode(f.json).ok
                THEN handle_message(LanMessage_decode(f.json).val) ELSE <<>>]

DomainEvents == {"lan_order_created", "lan_order_status_update", "lan_sync_state"}
Forwarded == Cardinality({i \in 1..Len(sink) : sink[i][1] \in DomainEvents})

\* ---- mutant: a task whose connection was closed by the peer notifies the
\* app and goes back to work as a connected session.
ClientLoopExit_Reconnects(k, cause) ==
    /\ lanClient' = [lanClient EXCEPT ![k] =
            IF cause = "closed"
            THEN [@ EXCEPT !.stream = "open"]
            ELSE [@ EXCEPT !.pc = "exited", !.is_connected = FALSE,
                           !.stopSent = FALSE, !.stream = "closed"]]
    /\ sink' = Append(sink, <<"lan_disconnected", k>>)
    /\ UNCHANGED <<clientSlot, nextClient, connecting, serverVars, hist, wire, discovery>>

\* ---- mutant: the flag the task clears is that of the client in the slot,
\* as if all LanClients shared one is_connected.
ClientLoopExit_SharedFlag(k, cause) ==
    /\ lanClient' = [lanClient EXCEPT
            ![k] = [@ EXCEPT !.pc = "exited", !.stopSent = FALSE, !.stream = "closed",
                             !.is_connected = (clientSlot # 0 /\ clientSlot # k /\ @)],
            ![IF clientSlot # 0 THEN clientSlot ELSE k].is_connected = FALSE]
    /\ sink' = Append(sink, <<"lan_disconnected", k>>)
    /\ UNCHANGED <<clientSlot, nextClient, connecting, serverVars, hist, wire, discovery>>

\* ---- mutant: a task ended by the stop signal emits nothing.
ExitEvents_QuietStop(k, cause) ==
    IF cause = "stop" THEN <<>> ELSE <<(<<"lan_disconnected", k>>)>>

\* After the loop: app_handle.emit("lan_disconnected", ()), whatever broke it.
ExitEvents(k, cause) == <<(<<"lan_disconnected", k>>)>>

\* After the loop: is_connected.store(false), the event, the task ends and
\* its socket halves are dropped.
ClientLoopExit(k, cause) ==
    /\ lanClient' = [lanClient EXCEPT ![k] =
            [@ EXCEPT !.pc = "exited", !.is_connected = FALSE,
                      !.stopSent = FALSE, !.stream = "closed"]]
    /\ sink' = sink \o ExitEvents(k, cause)
    /\ UNCHANGED <<clientSlot, nextClient, connecting, serverVars, hist, wire, discovery>>

\* ---- mutant: the stop branch is taken but does not break the loop.
ClientLoopStop_NoBreak(k) ==
    /\ lanClient[k].pc = "loop"
    /\ lanClient[k].stopSent
    /\ UNCHANGED vars

\* select!: `_ = &mut stop_rx`
ClientLoopStop(k) ==
    /\ lanClient[k].pc = "loop"
    /\ lanClient[k].stopSent
    /\ ClientLoopExit(k, "stop")

\* select!: the 30 s tick; a failed send of the Ping breaks the loop.
ClientLoopPing(k) ==
    /\ lanClient[k].pc = "loop"
    /\ \E ok \in BOOLEAN :
        IF ok THEN UNCHANGED vars ELSE ClientLoopExit(k, "ping")

\* select!: ws_receiver.next().  Text goes to handle_message when it parses;
\* Close or the end of the stream breaks the loop; `_ => {}` takes every
\* other frame and a read error, after which the loop goes round.
ClientLoopRecv(k) ==
    /\ lanClient[k].pc = "loop"
    /\ \E f \in Inbound :
        IF OnInbound(f).break THEN ClientLoopExit(k, "closed")
        ELSE IF f.frame = "error"
        THEN /\ lanClient' = [lanClient EXCEPT ![k].stream = "errored"]
             /\ UNCHANGED <<clientSlot, nextClient, connecting, sink, serverVars, hist, wire, discovery>>
        ELSE IF OnInbound(f).events # <<>>
        THEN /\ Forwarded + Len(OnInbound(f).events) <= MaxEvents
             /\ sink' = sink \o [i \in 1..Len(OnInbound(f).events) |->
                            <<OnInbound(f).events[i].kind, k, OnInbound(f).events[i].payload>>]
             /\ UNCHANGED <<clientSlot, nextClient, lanClient, connecting, serverVars, hist, wire, discovery>>
        ELSE UNCHANGED vars

\* ------------------------------------------------------------ specification
\* The server process.
Next ==
    \/ start_lan_server
    \/ stop_lan_server
    \/ broadcast_order
    \/ broadcast_order_status
    \/ \E g \in Gens : AcceptLoopSleep(g)
    \/ \E g \in Gens, c \in Conns : AcceptLoopAccept(g, c)
    \/ \E c \in Conns : RecvFirst(c)
    \/ \E c \in Conns : SendError(c)
    \/ \E c \in Conns : SendAck(c)
    \/ \E c \in Conns : Insert(c)
    \/ \E c \in Conns : EmitConnected(c)
    \/ \E c \in Conns : LoopClientMsg(c)
    \/ \E c \in Conns : LoopClose(c)
    \/ \E c \in Conns : BroadcastRecv(c)
    \/ \E c \in Conns : Remove(c)
    \/ \E c \in Conns : EmitDisconnected(c)

Spec == Init /\ [][Next]_vars

\* The handshake without publishing: no message is ever queued, so the
\* session loops only read their sockets.
NextHandshake ==
    \/ start_lan_server
    \/ stop_lan_server
    \/ \E g \in Gens : AcceptLoopSleep(g)
    \/ \E g \in Gens, c \in Conns : AcceptLoopAccept(g, c)
    \/ \E c \in Conns : RecvFirst(c)
    \/ \E c \in Conns : SendError(c)
    \/ \E c \in Conns : SendAck(c)
    \/ \E c \in Conns : Insert(c)
    \/ \E c \in Conns : EmitConnected(c)
    \/ \E c \in Conns : LoopClientMsg(c)
    \/ \E c \in Conns : LoopClose(c)
    \/ \E c \in Conns : Remove(c)
    \/ \E c \in Conns : EmitDisconnected(c)

SpecHandshake == Init /\ [][NextHandshake]_vars

\* The steps the server takes by itself once they are enabled: the accept
\* task's timer and every step of a handler that does not wait for its peer.
\* Commands, new connections and frames from a client are not among them.
FairServer ==
    /\ \A g \in Gens : WF_vars(AcceptLoopSleep(g))
    /\ \A c \in Conns :
        /\ WF_vars(SendError(c))
        /\ WF_vars(SendAck(c))
        /\ WF_vars(Insert(c))
        /\ WF_vars(EmitConnected(c))
        /\ WF_vars(Remove(c))
        /\ WF_vars(EmitDisconnected(c))

SpecHandshakeFair == Init /\ [][NextHandshake]_vars /\ FairServer

\* The client process, against any peer.
NextClient ==
    \/ connect_lan_server
    \/ disconnect_lan_server
    \/ \E k \in Clients : ConnectReply(k)
    \/ \E k \in Clients : ClientLoopStop(k)
    \/ \E k \in Clients : ClientLoopPing(k)
    \/ \E k \in Clients : ClientLoopRecv(k)

SpecClient == Init /\ [][NextClient]_vars

\* The stop branch of a session task's select! is taken once the signal is
\* there.  Replies and frames come from the peer, and the Ping tick changes
\* nothing unless its send fails: none of them is something the client does
\* by itself.
FairClient == \A k \in Clients : WF_vars(ClientLoopStop(k))

SpecClientFair == Init /\ [][NextClient]_vars /\ FairClient

\* Delivery: every action, with the handshake's history left unrecorded.
InitDelivery ==
    /\ slot = 0
    /\ nextGen = 0
    /\ server = [g \in Gens |-> LanServer_new("t1")]
    /\ acceptLoop = [g \in Gens |-> "none"]
    /\ conn = [c \in Conns |-> NoConn]
    /\ hist = {}
    /\ InitClient
    /\ wire = NoWire
    /\ discovery = NoDiscovery

\* Next, with no more than MaxDeliveryStarts servers installed.
NextDelivery ==
    \/ nextGen < MaxDeliveryStarts /\ start_lan_server
    \/ stop_lan_server
    \/ broadcast_order
    \/ broadcast_order_status
    \/ \E g \in Gens : AcceptLoopSleep(g)
    \/ \E g \in Gens, c \in Conns : AcceptLoopAccept(g, c)
    \/ \E c \in Conns : RecvFirst(c)
    \/ \E c \in Conns : SendError(c)
    \/ \E c \in Conns : SendAck(c)
    \/ \E c \in Conns : Insert(c)
    \/ \E c \in Conns : EmitConnected(c)
    \/ \E c \in Conns : LoopClientMsg(c)
    \/ \E c \in Conns : LoopClose(c)
    \/ \E c \in Conns : BroadcastRecv(c)
    \/ \E c \in Conns : Remove(c)
    \/ \E c \in Conns : EmitDisconnected(c)

SpecDelivery == InitDelivery /\ [][NextDelivery]_vars

\* The codec alone: any LanMessage is encoded and the text decoded, and any
\* text that is not the encoding of a LanMessage is decoded.
InitCodec ==
    /\ slot = 0
    /\ nextGen = 0
    /\ server = [g \in Gens |-> LanServer_new("t1")]
    /\ acceptLoop = [g \in Gens |-> "none"]
    /\ conn = [c \in Conns |-> NoConn]
    /\ hist = {"handshake"}
    /\ InitClient
    /\ wire \in {[stage |-> "message", msg |-> m] : m \in Messages}
                \cup {[stage |-> "text", json |-> j] : j \in Undecodable}
    /\ discovery = NoDiscovery

\* serde_json::to_string(&message)
to_string ==
    /\ wire.stage = "message"
    /\ wire' = [stage |-> "text", msg |-> wire.msg, json |-> LanMessage_encode(wire.msg)]
    /\ UNCHANGED <<serverVars, hist, clientVars, discovery>>

\* serde_json::from_str::<LanMessage>(&text)
from_str ==
    /\ wire.stage = "text"
    /\ wire' = [wire EXCEPT !.stage = IF LanMessage_decode(wire.json).ok
                                      THEN "decoded" ELSE "rejected"]
               @@ (IF LanMessage_decode(wire.json).ok
                   THEN [out |-> LanMessage_decode(wire.json).val]
                   ELSE [err |-> LanMessage_decode(wire.json).err])
    /\ UNCHANGED <<serverVars, hist, clientVars, discovery>>

NextCodec == to_string \/ from_str

SpecCodec == InitCodec /\ [][NextCodec]_vars

\* get_lan_clients: the client list of the installed server's status.
get_lan_clients == get_lan_server_status.connected_clients

\* ---- mutant: a status call drops the sessions of handlers that have left
\* their loop.
ReadStatus_Prunes ==
    /\ server' = [g \in Gens |->
            [server[g] EXCEPT !.clients =
                {id \in @ : \A c \in Conns : ClientId(c) = id => conn[c].pc # "remove"}]]
    /\ UNCHANGED <<slot, nextGen, acceptLoop, conn, rest>>

\* A call of get_lan_server_status, get_lan_clients or get_lan_client_status:
\* each takes a read lock of its slot (and LanServer::status the Registry
\* lock), builds its answer from what it reads and writes nothing.
\* get_lan_client_status waits while a connect holds the write lock.
ReadStatus ==
    /\ \E cmd \in {"get_lan_server_status", "get_lan_clients", "get_lan_client_status"} :
            cmd = "get_lan_client_status" => connecting = 0
    /\ UNCHANGED vars

\* -------------------------------------------------------------- discovery
\* The mDNS daemon thread of a stopped server ends when it gets to the
\* shutdown request; until then it answers queries.
DaemonExit(g) ==
    /\ server[g].advertised
    /\ ~server[g].mdns_daemon
    /\ server' = [server EXCEPT ![g].advertised = FALSE]
    /\ UNCHANGED <<slot, nextGen, acceptLoop, conn, rest>>

\* Option<String>: None is {}, Some(t) is {t}.
TenantFilters == {{}} \cup {{t} : t \in Tenants}

\* What other hosts advertise under the service type: a server of another
\* tenant, one without a tenant property, one resolved without an address.
ForeignServices ==
    {[host |-> "other", gen |-> 0, tenant |-> {"t2"}, addresses |-> 1],
     [host |-> "untagged", gen |-> 0, tenant |-> {}, addresses |-> 1],
     [host |-> "unreachable", gen |-> 0, tenant |-> {"t1"}, addresses |-> 0]}

\* The ServiceInfo register_mdns advertises for server g: the properties
\* carry its tenant_id under "tenant".
ServiceInfoOf(g) ==
    [host |-> "pos", gen |-> g, tenant |-> {server[g].tenant_id}, addresses |-> 1]

NoInfo == [host |-> "", gen |-> 0, tenant |-> {}, addresses |-> 0]

\* What one round of the browse loop can get from spawn_blocking(recv_timeout):
\* a resolved service that is being advertised, another ServiceEvent, no
\* event within 100 ms or a closed channel (Ok(Err)), a failed join (Err).
BrowseEvents ==
    {[kind |-> "resolved", info |-> i] :
        i \in ForeignServices \cup {ServiceInfoOf(g) : g \in {h \in Gens : server[h].advertised}}}
    \cup {[kind |-> k, info |-> NoInfo] : k \in {"other", "recv_error", "join_error"}}

\* ---- mutant: a service without a tenant property passes every filter.
Passes_Untagged(filter, tenant) == filter = {} \/ tenant = {} \/ tenant = filter

\* `if let Some(ref filter_tenant) = tenant_id { if server_tenant.as_ref() !=
\* Some(filter_tenant) { continue; } }`
Passes(filter, tenant) == filter = {} \/ tenant = filter

\* The DiscoveredServer pushed for a ServiceInfo.
DiscoveredServer(info) == [name |-> info.host, gen |-> info.gen, tenant_id |-> info.tenant]

\* ---- mutant: a failed round ends the call with an error.
OnBrowseEvent_FailsOnError(d, ev) ==
    IF ev.kind \in {"recv_error", "join_error"}
    THEN [d EXCEPT !.seen = Append(@, ev), !.pc = "done",
                   !.res = Err("Failed to browse mDNS")]
    ELSE [d EXCEPT !.seen = Append(@, ev),
                   !.servers = IF ev.kind = "resolved" /\ Passes(d.filter, ev.info.tenant)
                                  /\ ev.info.addresses > 0
                               THEN Append(@, DiscoveredServer(ev.info)) ELSE @]

\* One round of the browse loop: only `Ok(Ok(ServiceResolved(info)))` does
\* anything, and only when info passes the filter and has an address.
OnBrowseEvent(d, ev) ==
    [d EXCEPT !.seen = Append(@, ev),
              !.servers = IF ev.kind = "resolved" /\ Passes(d.filter, ev.info.tenant)
                             /\ ev.info.addresses > 0
                          THEN Append(@, DiscoveredServer(ev.info)) ELSE @]

\* discover_servers up to its loop: ServiceDaemon::new()? and browse()?.
\* stopped records the servers whose stop had returned when the call began.
discover_begin(filter, daemonOk, browseOk) ==
    [pc |-> IF daemonOk /\ browseOk THEN "browsing" ELSE "done",
     calls |-> discovery.calls + 1, filter |-> filter,
     seen |-> <<>>, servers |-> <<>>,
     stopped |-> {g \in Gens : g <= nextGen /\ ~server[g].is_running},
     res |-> IF ~daemonOk THEN Err("Failed to create mDNS daemon")
             ELSE IF ~browseOk THEN Err("Failed to browse mDNS")
             ELSE Ok(0)]

discover_lan_servers ==
    /\ discovery.pc # "browsing"
    /\ discovery.calls < MaxDiscovers
    /\ \E filter \in TenantFilters, daemonOk \in BOOLEAN, browseOk \in BOOLEAN :
            discovery' = discover_begin(filter, daemonOk, browseOk)
    /\ UNCHANGED <<serverVars, hist, clientVars, wire>>

\* select!: the spawn_blocking branch.
DiscoverRecv ==
    /\ discovery.pc = "browsing"
    /\ Len(discovery.seen) < MaxBrowse
    /\ \E ev \in BrowseEvents : discovery' = OnBrowseEvent(discovery, ev)
    /\ UNCHANGED <<serverVars, hist, clientVars, wire>>

\* select!: sleep_until(deadline) => break; then `let _ = mdns.shutdown()`
\* and Ok(servers).
DiscoverTimeout ==
    /\ discovery.pc = "browsing"
    /\ discovery' = [discovery EXCEPT !.pc = "done"]
    /\ UNCHANGED <<serverVars, hist, clientVars, wire>>

\* Discovery next to a server that is started and stopped.
NextDiscovery ==
    \/ nextGen < MaxDeliveryStarts /\ start_lan_server
    \/ stop_lan_server
    \/ \E g \in Gens : AcceptLoopSleep(g)
    \/ \E g \in Gens : DaemonExit(g)
    \/ discover_lan_servers
    \/ DiscoverRecv
    \/ DiscoverTimeout

SpecDiscovery == Init /\ [][NextDiscovery]_vars

\* The deadline of a discover call passes.
FairDiscovery == WF_vars(DiscoverTimeout)

SpecDiscoveryFair == Init /\ [][NextDiscovery]_vars /\ FairDiscovery

\* The sessions of servers installed by no more than MaxDeliveryStarts
\* starts, without publishing.
NextSession ==
    \/ nextGen < MaxDeliveryStarts /\ start_lan_server
    \/ stop_lan_server
    \/ \E g \in Gens : AcceptLoopSleep(g)
    \/ \E g \in Gens, c \in Conns : AcceptLoopAccept(g, c)
    \/ \E c \in Conns : RecvFirst(c)
    \/ \E c \in Conns : SendError(c)
    \/ \E c \in Conns : SendAck(c)
    \/ \E c \in Conns : Insert(c)
    \/ \E c \in Conns : EmitConnected(c)
    \/ \E c \in Conns : LoopClientMsg(c)
    \/ \E c \in Conns : LoopClose(c)
    \/ \E c \in Conns : Remove(c)
    \/ \E c \in Conns : EmitDisconnected(c)
    \/ ReadStatus

SpecSession == Init /\ [][NextSession]_vars

\* What a handler does after its loop has no await on the peer: the Registry
\* lock, the remove and the notification.  The runtime keeps running tasks
\* that are ready: while some handler is at one of these steps, one of them
\* is taken.
FairRemoval ==
    WF_vars(\E c \in Conns : Remove(c) \/ EmitDisconnected(c))

SpecSessionFair == Init /\ [][NextSession]_vars /\ FairRemoval

\* The sessions of the first server installed, with the Pings read and the
\* Pongs written on record.
InitPing ==
    /\ slot = 0
    /\ nextGen = 0
    /\ server = [g \in Gens |-> LanServer_new("t1")]
    /\ acceptLoop = [g \in Gens |-> "none"]
    /\ conn = [c \in Conns |-> NoConn]
    /\ hist = {"handshake", "pings"}
    /\ InitClient
    /\ wire = NoWire
    /\ discovery = NoDiscovery

NextPing ==
    \/ nextGen = 0 /\ start_lan_server
    \/ stop_lan_server
    \/ \E g \in Gens : AcceptLoopSleep(g)
    \/ \E g \in Gens, c \in Conns : AcceptLoopAccept(g, c)
    \/ \E c \in Conns : RecvFirst(c)
    \/ \E c \in Conns : SendError(c)
    \/ \E c \in Conns : SendAck(c)
    \/ \E c \in Conns : Insert(c)
    \/ \E c \in Conns : EmitConnected(c)
    \/ \E c \in Conns : LoopClientMsg(c)
    \/ \E c \in Conns : LoopClose(c)
    \/ \E c \in Conns : Remove(c)
    \/ \E c \in Conns : EmitDisconnected(c)

SpecPing == InitPing /\ [][NextPing]_vars

\* ------------------------------------------------------------------ claims
\* The tenant of the server whose accept loop took connection c.
ServerTenantOf(c) == server[conn[c].gen].tenant_id
Mismatched(c) ==
    conn[c].first = "register" /\ conn[c].gen # 0 /\ conn[c].tenant # ServerTenantOf(c)
Matched(c) ==
    conn[c].first = "register" /\ conn[c].gen # 0 /\ conn[c].tenant = ServerTenantOf(c)
InRegistry(c) == \E g \in Gens : ClientId(c) \in server[g].clients
Range(f) == {f[i] : i \in 1..Len(f)}

\* C1: a connection whose first message is a Register of another tenant is
\* answered with Error TENANT_MISMATCH and its handler returns; it never puts
\* a session into the Registry and raises no notification.
C1_MismatchRejected ==
    \A c \in Conns :
        Mismatched(c) =>
            /\ conn[c].pc \in {"reject", "done"}
            /\ (conn[c].pc = "done" => conn[c].sent = "Error")
            /\ ~conn[c].inserted
            /\ ~InRegistry(c)
            /\ conn[c].events = {}

\* C1 witness: a mismatched Register has been answered with Error.
C1_Witness ==
    \E c \in Conns : Mismatched(c) /\ conn[c].pc = "done" /\ conn[c].sent = "Error"

\* C2 (as claimed): a connection whose first message is not a Register is
\* answered with Error TENANT_MISMATCH and closed, never inserted into the
\* Registry, and no client-connected notification is raised for it.
C2_NonRegisterRejected ==
    \A c \in Conns :
        conn[c].first = "other" =>
            /\ ~conn[c].inserted
            /\ ~InRegistry(c)
            /\ "connected" \notin conn[c].events
            /\ (conn[c].pc = "done" => conn[c].sent = "Error")

\* C3 (as claimed): tenant isolation.  Every session in the Registry, and
\* every connection a broadcast message was forwarded to, sent a Register
\* whose tenant_id is the server's.
C3_TenantIsolation ==
    \A c \in Conns :
        (InRegistry(c) \/ conn[c].fwd # <<>>) => Matched(c)

\* C4 (as claimed): connected_clients of the Registered reply is the number
\* of sessions in the Registry immediately before the connection's own
\* session is inserted.  Stated for a running server all of whose connections
\* registered, so that a violation rests on concurrent handshakes alone.
C4_CountAtInsertion ==
    \A c \in Conns :
        ( /\ conn[c].pc = "insert"
          /\ Matched(c)
          /\ server[conn[c].gen].is_running
          /\ \A d \in Conns : conn[d].first # "other" ) =>
            conn[c].ack = Cardinality(server[conn[c].gen].clients)

\* C4 (amended): connected_clients of the Registered reply is the number of
\* sessions in the Registry at the moment the reply is built, and the
\* connection's own session is not among them.
C4_CountWhenReplyBuilt ==
    [][\A c \in Conns :
          (conn[c].pc = "await" /\ conn'[c].pc = "sendAck") =>
              /\ conn'[c].ack = Cardinality(server[conn'[c].gen].clients)
              /\ c \notin server[conn'[c].gen].clients]_vars

\* C4 witness: a reply was sent that counts another connection's session.
C4_Witness ==
    \E c \in Conns :
        Matched(c) /\ conn[c].pc = "insert" /\ conn[c].sent = "Registered" /\ conn[c].ack = 1

\* C5: for a Register of the server's tenant, the session is inserted only
\* after Registered was sent, the client-connected notification is raised
\* only after the session was inserted, a failed send of Registered leads to
\* no insertion and no notification, and while the reply exists the
\* connection's own session is not in the Registry.
C5_HandshakeOrder ==
    \A c \in Conns :
        Matched(c) =>
            /\ conn[c].inserted => conn[c].sent = "Registered"
            /\ "connected" \in conn[c].events => conn[c].inserted
            /\ conn[c].sent # "Registered" =>
                    ~conn[c].inserted /\ ~InRegistry(c) /\ conn[c].events = {}
            /\ conn[c].ack >= 0 => ~conn[c].inserted /\ ~InRegistry(c)

\* C5 witness: one handshake went through to its notification, another
\* ended with the send of Registered failing.
C5_Witness ==
    \E c, d \in Conns :
        /\ Matched(c) /\ "connected" \in conn[c].events
        /\ Matched(d) /\ conn[d].pc = "done" /\ conn[d].sent = "none"

\* No receiver of the installed server's channel has fallen behind the ring.
NoneLagging ==
    \A c \in Receivers(slot) : conn[c].cursor >= Oldest(server[slot].published)

\* C6 (as claimed): with N sessions in the Registry of the running server and
\* none lagging, broadcast returns N, and each of the N sessions is a
\* receiver of the message.
C6_DeliveredCountIsRegistrySize ==
    (slot # 0 /\ server[slot].is_running /\ NoneLagging) =>
        /\ broadcast_result.ok
        /\ broadcast_result.val = Cardinality(server[slot].clients)
        /\ server[slot].clients \subseteq Receivers(slot)

C8_NoEarlyDelivery ==
    \A c \in Conns :
        Matched(c) =>
            \A i \in 1..Len(conn[c].fwd) : conn[c].fwd[i] > conn[c].admAt

\* C9: broadcast_order and broadcast_order_status fail with "LAN server is
\* not running" when the slot is empty; with a server in the slot they return
\* Ok with a count, which is 0 when nothing is subscribed.
C9_BroadcastResult ==
    /\ slot = 0 =>
            ~broadcast_result.ok /\ broadcast_result.err = "LAN server is not running"
    /\ slot # 0 =>
            /\ broadcast_result.ok
            /\ broadcast_result.val \in 0..MaxConns
            /\ (Receivers(slot) = {} => broadcast_result.val = 0)

\* C9 witness: a server is in the slot, it has published, one of its
\* subscribers is lagging and another handler has already returned.
C9_Witness ==
    /\ slot # 0
    /\ server[slot].published > 0
    /\ \E c \in Receivers(slot) : conn[c].cursor < Oldest(server[slot].published)
    /\ \E d \in Conns : conn[d].pc = "done"

\* C10: a slow subscriber neither blocks nor fails a publish; at most
\* BacklogCap messages are kept for a subscriber; a session in its loop has
\* forwarded every message from its first one up to its cursor except those
\* it lost, it lost a message only when BacklogCap newer ones had been
\* published, and a session that has just lagged is still in its loop.
C10_BoundedBacklog ==
    /\ slot # 0 => broadcast_result.ok
    /\ \A c \in Conns :
        LET h == conn[c]
            n == server[h.gen].published IN
        /\ h.disabled => h.pc = "loop"
        /\ h.pc = "loop" =>
            /\ Range(h.fwd) \cap h.lost = {}
            /\ Range(h.fwd) \cup h.lost =
                    (h.cursor - Len(h.fwd) - Cardinality(h.lost)) .. (h.cursor - 1)
            /\ \A i \in h.lost : i + BacklogCap <= n
            /\ (h.cursor >= Oldest(n) => n - h.cursor + 1 <= BacklogCap)

\* C10 witness: one session lost a message to overflow and went on to
\* forward a newer one, while another session forwarded everything.
C10_Witness ==
    \E c, d \in Conns :
        /\ conn[c].pc = "loop" /\ conn[c].lost # {} /\ conn[c].fwd # <<>>
        /\ conn[d].pc = "loop" /\ conn[d].lost = {} /\ Len(conn[d].fwd) >= 2

\* ------------------------------------------------- claims: start and stop
\* C11: start_lan_server with a server in the slot returns "LAN server is
\* already running", and no step taken while a server is in the slot installs
\* another server, puts another one into the slot or changes the tenant of
\* the one that is there; the slot is only ever emptied.
C11_StartWhenRunning ==
    /\ [](slot # 0 =>
            \A portBusy, mdnsOk \in BOOLEAN :
                start_result(portBusy, mdnsOk) = Err("LAN server is already running"))
    /\ [][slot # 0 =>
            /\ nextGen' = nextGen
            /\ slot' \in {slot, 0}
            /\ server'[slot].tenant_id = server[slot].tenant_id
            /\ acceptLoop'[slot] = acceptLoop[slot]
            /\ (slot' = slot => /\ server'[slot].is_running
                                /\ server'[slot].mdns_daemon)]_vars

\* C11 witness: a server is running with a session in its Registry.
C11_Witness ==
    slot # 0 /\ server[slot].clients # {} /\ acceptLoop[slot] = "select"

\* C12: a start that cannot bind the port or cannot register with mDNS
\* returns an error and leaves nothing behind: with the slot empty no server
\* is running or advertised, a server that was never put into the slot is as
\* LanServer::new built it and has no accept task, and the slot only ever
\* holds a server whose start succeeded.
C12_FailedStartLeavesNothing ==
    /\ \A portBusy, mdnsOk \in BOOLEAN :
            (slot = 0 /\ (PortHeld \/ portBusy \/ ~mdnsOk)) =>
                /\ ~start_result(portBusy, mdnsOk).ok
                /\ start_result(portBusy, mdnsOk).err \in
                        {"Failed to bind", "Failed to create mDNS daemon"}
    /\ slot = 0 => \A g \in Gens : ~server[g].is_running /\ ~server[g].mdns_daemon
    /\ slot # 0 =>
            /\ server[slot].is_running /\ server[slot].mdns_daemon
            /\ acceptLoop[slot] = "select"
    /\ \A g \in Gens : g > nextGen =>
            server[g] = LanServer_new("t1") /\ acceptLoop[g] = "none"
    /\ get_lan_server_status.is_running => get_lan_server_status.mdns_registered

\* C12 witness: the slot is empty after a server was stopped, and a start
\* fails on the port.
C12_Witness ==
    /\ slot = 0 /\ nextGen = 1 /\ PortHeld
    /\ ~start_result(FALSE, TRUE).ok

\* What get_lan_server_status answers for a stopped server.
StoppedStatus ==
    [is_running |-> FALSE, mdns_registered |-> FALSE, connected_clients |-> {}]

\* C13: stop_lan_server returns Ok in every state; the state a stop leaves has
\* an empty slot and a status of not running, not advertised and no clients,
\* and a second stop called in that state would leave the same slot and the
\* same servers.
C13_StopIdempotent ==
    /\ [](stop_result.ok)
    /\ [][stop_lan_server =>
            /\ slot' = 0
            /\ get_lan_server_status' = StoppedStatus
            /\ StopAgain' = [slot |-> slot', server |-> server']]_vars

\* C13 witness: a server that had a session in its loop has been stopped.
C13_Witness ==
    /\ slot = 0 /\ nextGen > 0
    /\ \E c \in Conns : conn[c].pc = "loop" /\ ~server[conn[c].gen].is_running

\* C15: start_lan_server runs under the write lock of the slot, so of two
\* calls the second finds the first one's server installed and fails; at most
\* one server is running, it is the one in the slot, and at most one accept
\* task holds the listener.
C15_OneRunningServer ==
    /\ Cardinality({g \in Gens : server[g].is_running}) <= 1
    /\ Cardinality({g \in Gens : acceptLoop[g] = "select"}) <= 1
    /\ \A g \in Gens : server[g].is_running => slot = g
    /\ slot # 0 =>
            \A portBusy, mdnsOk \in BOOLEAN : ~start_result(portBusy, mdnsOk).ok

\* C15 witness: a second server is running after the first one was stopped
\* and its accept task has ended.
C15_Witness ==
    /\ nextGen >= 2 /\ slot = nextGen
    /\ \A g \in Gens : g < nextGen => acceptLoop[g] = "exited"

\* C14 (as claimed): a session that was in the Registry when stop cleared it
\* (it registered with the server's tenant, it is in its loop, it was
\* inserted, its server is stopped and the Registry no longer holds it)
\* eventually leaves its loop.
C14_StopEndsSessions ==
    \A c \in Conns :
        ( /\ conn[c].pc = "loop" /\ conn[c].inserted /\ Matched(c)
          /\ ~server[conn[c].gen].is_running
          /\ c \notin server[conn[c].gen].clients )
            ~> (conn[c].pc # "loop")

\* ---------------------------------------------------------- claims: client
\* Positions of the sink that hold an event of LanClient k.
EventsOf(k, kinds) == {i \in 1..Len(sink) : sink[i][2] = k /\ sink[i][1] \in kinds}

\* C16 (as claimed): connect_lan_server called while the stored client is
\* connected opens no connection and leaves the stored client, its stop
\* signal and its session task as they were.
C16_ConnectWhenConnected ==
    [][(connect_lan_server /\ clientSlot # 0 /\ lanClient[clientSlot].is_connected) =>
            /\ lanClient'[clientSlot] = lanClient[clientSlot]
            /\ nextClient' = nextClient
            /\ connecting' = 0]_vars

\* C17 (as claimed): a connect that waits for the reply to Register
\* eventually returns.
C17_ConnectReturns == (connecting # 0) ~> (connecting = 0)

\* C18: when the reply to Register is anything but Registered, connect fails:
\* the LanClient has no client_id, server_info, server_address or stop
\* channel and is not connected, its socket is closed, it is not stored in
\* the slot, nothing was emitted for it, no session task runs for it, and
\* the status after the failed call reports is_connected = false.
C18_FailedReply ==
    /\ [](\A k \in Clients :
            /\ lanClient[k].reply \notin {"none", "registered"} => lanClient[k].pc = "failed"
            /\ lanClient[k].pc = "failed" =>
                    /\ ~lanClient[k].is_connected /\ ~lanClient[k].client_id
                    /\ ~lanClient[k].server_info /\ ~lanClient[k].server_address
                    /\ ~lanClient[k].connected_at /\ ~lanClient[k].stop_signal
                    /\ lanClient[k].stream = "closed"
                    /\ clientSlot # k
                    /\ EventsOf(k, DomainEvents \cup {"lan_connected", "lan_disconnected"}) = {})
    /\ [][\A k \in Clients :
            (connecting = k /\ lanClient'[k].pc = "failed") =>
                ~get_lan_client_status'.is_connected]_vars

\* C18 witness: a connect was answered with Error while the slot held the
\* client of an earlier connect.
C18_Witness ==
    \E k \in Clients :
        lanClient[k].pc = "failed" /\ lanClient[k].reply = "error" /\ clientSlot \notin {0, k}

\* C19: a session task that has ended has cleared is_connected and emitted
\* lan_disconnected exactly once, after every domain event it forwarded; a
\* task that has not ended has not emitted it; and the connect that spawned
\* the task had returned Ok (lan_connected precedes everything the task
\* emitted).
C19_LoopExit ==
    \A k \in Clients :
        LET disc == EventsOf(k, {"lan_disconnected"})
            dom == EventsOf(k, DomainEvents)
            con == EventsOf(k, {"lan_connected"}) IN
        /\ lanClient[k].pc = "exited" =>
                /\ Cardinality(disc) = 1
                /\ ~lanClient[k].is_connected
                /\ \A i \in dom, j \in disc : i < j
        /\ lanClient[k].pc # "exited" => disc = {}
        /\ lanClient[k].pc \in {"loop", "exited"} =>
                /\ lanClient[k].reply = "registered"
                /\ Cardinality(con) = 1
                /\ \A i \in con, j \in dom \cup disc : i < j

\* C19 witness: the session task of every LanClient has ended, one of them
\* after forwarding a domain event.
C19_Witness ==
    /\ \E k \in Clients :
            lanClient[k].pc = "exited" /\ EventsOf(k, DomainEvents) # {}
    /\ \A k \in Clients : lanClient[k].pc = "exited"

\* C20 (as claimed): a session task whose read yielded an error has left its
\* loop.
C20_ReadErrorEndsSession ==
    \A k \in Clients : lanClient[k].stream = "errored" => lanClient[k].pc # "loop"

\* What get_lan_client_status answers for a disconnected client.
DisconnectedStatus ==
    [is_connected |-> FALSE, server_address |-> FALSE,
     server_info |-> FALSE, connected_at |-> FALSE]

\* C21: disconnect_lan_server returns Ok in every state; the state it leaves
\* has an empty slot and a status of not connected with no address, server
\* info or connected_at, the LanClient that was stored reports the same, its
\* session task has been sent the stop signal but is where it was (the call
\* did not wait for it), and a second disconnect in that state would change
\* nothing.
C21_DisconnectIdempotent ==
    /\ [](disconnect_result.ok)
    /\ [][disconnect_lan_server =>
            /\ clientSlot' = 0
            /\ get_lan_client_status' = DisconnectedStatus
            /\ DisconnectAgain' = [clientSlot |-> clientSlot', lanClient |-> lanClient']
            /\ \A k \in Clients : lanClient'[k].pc = lanClient[k].pc
            /\ clientSlot # 0 =>
                    /\ [is_connected |-> lanClient'[clientSlot].is_connected,
                        server_address |-> lanClient'[clientSlot].server_address,
                        server_info |-> lanClient'[clientSlot].server_info,
                        connected_at |-> lanClient'[clientSlot].connected_at]
                            = DisconnectedStatus
                    /\ (lanClient[clientSlot].pc = "loop") =>
                            lanClient'[clientSlot].stopSent]_vars

\* C21 witness: disconnect has returned while the session task of the client
\* it disconnected is still in its loop.
C21_Witness ==
    clientSlot = 0 /\ \E k \in Clients : lanClient[k].pc = "loop" /\ lanClient[k].stopSent

\* C22: a session task that has been sent the stop signal eventually ends,
\* having emitted lan_disconnected once and no domain event after it.
C22_StopSignalEndsLoop ==
    \A k \in Clients :
        (lanClient[k].pc = "loop" /\ lanClient[k].stopSent) ~>
            ( /\ lanClient[k].pc = "exited"
              /\ Cardinality(EventsOf(k, {"lan_disconnected"})) = 1
              /\ \A i \in EventsOf(k, DomainEvents),
                     j \in EventsOf(k, {"lan_disconnected"}) : i < j )

\* C22 witness: a task that has forwarded a domain event has been sent the
\* stop signal and has not consumed it yet.
C22_Witness ==
    \E k \in Clients :
        /\ lanClient[k].pc = "loop" /\ lanClient[k].stopSent
        /\ EventsOf(k, DomainEvents) # {}

\* C23: a LanClient whose session task has ended, or whose connect failed,
\* stays as it is and is never connected again; once lan_disconnected was
\* emitted for a LanClient its task has ended; and a connection is opened
\* only by a step of connect_lan_server.
C23_NoReconnect ==
    /\ [](\A k \in Clients :
            /\ (lanClient[k].pc \in {"exited", "failed"}) =>
                    (~lanClient[k].is_connected /\ lanClient[k].stream = "closed")
            /\ (EventsOf(k, {"lan_disconnected"}) # {}) => (lanClient[k].pc = "exited"))
    /\ [][ /\ \A k \in Clients :
                (lanClient[k].pc \in {"exited", "failed"}) =>
                    (lanClient'[k].pc = lanClient[k].pc)
           /\ (nextClient' # nextClient) => connect_lan_server
           /\ \A k \in Clients :
                (lanClient[k].stream # "open" /\ lanClient'[k].stream = "open") =>
                    connect_lan_server ]_vars

\* C23 witness: a session task has ended and no connect was made since.
C23_Witness ==
    /\ nextClient = 1 /\ lanClient[1].pc = "exited"
    /\ clientSlot = 1 /\ connecting = 0

\* C24: a handler that has left its session loop eventually returns, with
\* its session out of the Registry and lan_client_disconnected emitted for
\* it; the step that removes the session takes exactly that session out of
\* the Registry of its server and leaves every other server and handler as
\* it is; the notification is emitted by the one step that ends the handler.
C24_SessionRemovedOnClose ==
    /\ \A c \in Conns :
            (conn[c].pc = "remove") ~>
                (conn[c].pc = "done" /\ ~InRegistry(c) /\ "disconnected" \in conn[c].events)
    /\ [][\A c \in Conns :
            /\ (conn[c].pc = "remove" /\ conn'[c].pc # "remove") =>
                    /\ server'[conn[c].gen].clients = server[conn[c].gen].clients \ {c}
                    /\ \A g \in Gens \ {conn[c].gen} : server'[g] = server[g]
                    /\ \A d \in Conns \ {c} : conn'[d] = conn[d]
                    /\ "disconnected" \notin conn'[c].events
            /\ ("disconnected" \notin conn[c].events /\ "disconnected" \in conn'[c].events) =>
                    /\ conn[c].pc = "emitdisc" /\ conn'[c].pc = "done"
                    /\ server' = server
                    /\ \A d \in Conns \ {c} : conn'[d] = conn[d]]_vars

\* C24 witness: a registered session's handler has returned after its
\* connection closed while another session of the same server is still in
\* the Registry and in its loop.
C24_Witness ==
    \E c, d \in Conns :
        /\ c # d
        /\ conn[c].pc = "done" /\ conn[c].inserted /\ Matched(c)
        /\ "disconnected" \in conn[c].events
        /\ conn[d].pc = "loop" /\ d \in server[slot].clients
        /\ c \notin server[slot].clients

\* C25: handle_message turns OrderCreated, OrderStatusUpdate and SyncState
\* into exactly one event of the matching name that carries the fields of
\* the message, and every other variant into no event; text frames never
\* break the session loop; and every domain event in the sink is the event
\* of a message the peer sent, emitted while the session task was running.
C25_InboundDispatch ==
    /\ \A m \in Messages :
        LET ev == handle_message(m) IN
        CASE m.variant = "OrderCreated" ->
                /\ Len(ev) = 1 /\ ev[1].kind = "lan_order_created"
                /\ ev[1].payload.order = m.order
                /\ ev[1].payload.kitchenOrder = m.kitchen_order
          [] m.variant = "OrderStatusUpdate" ->
                /\ Len(ev) = 1 /\ ev[1].kind = "lan_order_status_update"
                /\ ev[1].payload.orderId = m.order_id
                /\ ev[1].payload.status = m.status
                /\ ev[1].payload.updatedAt = m.updated_at
          [] m.variant = "SyncState" ->
                /\ Len(ev) = 1 /\ ev[1].kind = "lan_sync_state"
                /\ ev[1].payload.orders = m.orders
          [] OTHER -> ev = <<>>
    /\ \A f \in Inbound : f.frame = "text" => ~OnInbound(f).break
    /\ \A i \in 1..Len(sink) :
        sink[i][1] \in DomainEvents =>
            \E m \in SessionMessages :
                handle_message(m) = <<[kind |-> sink[i][1], payload |-> sink[i][3]]>>

\* C25 witness: a session task has forwarded an OrderCreated with both of
\* its payloads and is still in its loop.
C25_Witness ==
    \E k \in Clients, i \in 1..Len(sink) :
        /\ lanClient[k].pc = "loop"
        /\ sink[i][2] = k /\ sink[i][1] = "lan_order_created"
        /\ sink[i][3] = [order |-> "{\"id\":1}", kitchenOrder |-> "null"]

\* C27: a LanMessage that was encoded and decoded again is the LanMessage
\* that was encoded, for every variant and every value of its fields.
C27_RoundTrip ==
    /\ (wire.stage \in {"decoded", "rejected"} /\ "msg" \in DOMAIN wire) =>
            (wire.stage = "decoded" /\ wire.out = wire.msg)
    /\ \A m \in Messages :
            /\ LanMessage_decode(LanMessage_encode(m)).ok
            /\ LanMessage_decode(LanMessage_encode(m)).val = m

\* C27 witness: a Registered, whose ServerInfo is encoded under other key
\* names than its fields have, has been through encoding and decoding.
C27_Witness ==
    /\ wire.stage = "decoded"
    /\ wire.msg.variant = "Registered"
    /\ wire.json.server_info.connectedClients = 1

\* C26: text that does not decode to a LanMessage (no JSON, an unknown
\* discriminant, a field missing) is dropped by the session loop of either
\* side: the loop of a server session that reads it does not break and
\* sends no reply, the loop of a client does not break and emits no event.
C26_UndecodableIgnored ==
    /\ \A j \in Undecodable :
            ~LanMessage_decode(j).ok /\ [frame |-> "text", json |-> j] \in Frames
    /\ \A f \in Frames :
            (f.frame = "text" /\ ~LanMessage_decode(f.json).ok) =>
                /\ \A c \in Conns :
                        conn[c].pc = "loop" =>
                            OnClientFrame(f) = [break |-> FALSE, reply |-> <<>>]
                /\ OnInbound(f) = [break |-> FALSE, events |-> <<>>]

\* C26 witness: a registered session is in its loop, where such a frame can
\* arrive.
C26_Witness ==
    \E c \in Conns :
        /\ conn[c].pc = "loop" /\ Matched(c) /\ InRegistry(c)
        /\ \E f \in Frames : f.frame = "text" /\ f.json.type = "bogus"

\* C28: a step of one connection's handler after it was spawned changes
\* neither the accept loops, nor the slot, nor any other handler, nor any
\* other session's membership of a Registry, nor what a server has published
\* or whether it runs.
C28_FailureIsolated ==
    [][\A c \in Conns :
        (conn'[c] # conn[c] /\ conn[c].pc # "idle") =>
            /\ acceptLoop' = acceptLoop
            /\ slot' = slot /\ nextGen' = nextGen
            /\ \A d \in Conns \ {c} : conn'[d] = conn[d]
            /\ \A g \in Gens :
                /\ server'[g].clients \ {ClientId(c)} = server[g].clients \ {ClientId(c)}
                /\ server'[g].is_running = server[g].is_running
                /\ server'[g].published = server[g].published]_vars

\* C28 witness: one handler has ended, its connection failed or closed,
\* while the accept loop of the server is at its select! and another session
\* of that server is registered and has been forwarded a message.
C28_Witness ==
    \E c, d \in Conns :
        /\ c # d /\ slot # 0
        /\ conn[c].pc = "done" /\ conn[d].pc = "loop"
        /\ conn[d].gen = slot /\ ClientId(d) \in server[slot].clients
        /\ conn[d].fwd # <<>>
        /\ acceptLoop[slot] = "select"

\* C29: every client the status commands list has had its session inserted
\* by its handler and not yet removed, and a status call changes nothing.
C29_StatusReadOnly ==
    /\ [](\A id \in get_lan_server_status.connected_clients \cup get_lan_clients :
            \E c \in Conns :
                /\ ClientId(c) = id /\ conn[c].inserted
                /\ conn[c].pc \in {"emit", "loop", "remove"})
    /\ [][ReadStatus => UNCHANGED vars]_vars

\* C29 witness: the status lists two sessions, one of them of a handler that
\* has left its loop and not yet removed it.
C29_Witness ==
    /\ Cardinality(get_lan_clients) = 2
    /\ \E c \in Conns : ClientId(c) \in get_lan_clients /\ conn[c].pc = "remove"

Resolved(d) ==
    SelectSeq(d.seen, LAMBDA ev : ev.kind = "resolved")

\* C31: with a filter every server collected carries exactly that tenant
\* property, and the servers collected are, in order, those resolved with an
\* address whose tenant property equals the filter; without a filter they
\* are all those resolved with an address, each with its tenant property or
\* none.
C31_DiscoverFilter ==
    LET d == discovery
        wanted == SelectSeq(Resolved(d), LAMBDA ev :
                    /\ ev.info.addresses > 0
                    /\ d.filter # {} => ev.info.tenant = d.filter) IN
    /\ \A i \in 1..Len(d.servers) :
            d.filter # {} => d.servers[i].tenant_id = d.filter
    /\ Len(d.servers) = Len(wanted)
    /\ \A i \in 1..Len(wanted) :
            /\ d.servers[i].name = wanted[i].info.host
            /\ d.servers[i].gen = wanted[i].info.gen
            /\ d.servers[i].tenant_id = wanted[i].info.tenant

\* C31 witness: a call filtered by t1 has returned the running server and has
\* left out a server without a tenant property that was resolved too.
C31_Witness ==
    /\ discovery.pc = "done" /\ discovery.filter = {"t1"}
    /\ Len(discovery.servers) = 1 /\ discovery.servers[1].name = "pos"
    /\ \E i \in 1..Len(discovery.seen) :
            discovery.seen[i].kind = "resolved" /\ discovery.seen[i].info.tenant = {}

\* C32: a discover call that is browsing eventually returns; a call returns
\* an error only when the daemon or the browse could not be created, before
\* any event was looked at, and a call that got into its loop returns Ok with
\* what it has collected.
C32_DiscoverTerminates ==
    /\ (discovery.pc = "browsing") ~> (discovery.pc = "done")
    /\ [](~discovery.res.ok =>
            /\ discovery.pc = "done" /\ discovery.seen = <<>> /\ discovery.servers = <<>>
            /\ discovery.res.err \in {"Failed to create mDNS daemon", "Failed to browse mDNS"})

\* C32 witness: a call has returned Ok with an empty list after rounds that
\* failed.
C32_Witness ==
    /\ discovery.pc = "done" /\ discovery.res.ok /\ discovery.servers = <<>>
    /\ Len(discovery.seen) = MaxBrowse
    /\ \A i \in 1..Len(discovery.seen) : discovery.seen[i].kind \in {"recv_error", "join_error"}

\* C33: a discover call collects no record of a server whose stop had
\* returned when the call began.
C33_NotAdvertisedAfterStop ==
    \A i \in 1..Len(discovery.servers) :
        discovery.servers[i].gen \notin discovery.stopped

\* C34: a connection is sent Registered only while the server that accepted
\* it is running: once stop has returned no handshake of that run completes.
C34_NoAdmissionAfterStop ==
    [][\A c \in Conns :
        (Matched(c) /\ conn[c].pc = "sendAck" /\ conn'[c].sent = "Registered")
            => server[conn[c].gen].is_running]_vars

\* C35: once a stop has completed, a start that finds the port free of other
\* processes and can register with mDNS succeeds: nothing of the previous run
\* makes it fail.
C35_RestartAfterStop ==
    (slot = 0 /\ nextGen > 0) => start_result(FALSE, TRUE).ok

\* C36: the handler of an admitted session has written exactly one Pong on
\* its connection for every Ping it has read there, and the step that reads a
\* Ping changes nothing else: no other handler's record (what it forwarded,
\* what it emitted), no server's Registry, no notification in the sink.
C36_PingPong ==
    /\ [](\A c \in Conns : conn[c].pongs = conn[c].pings)
    /\ [][\A c \in Conns :
            conn'[c].pings # conn[c].pings =>
                /\ conn[c].pc = "loop" /\ conn[c].inserted
                /\ conn'[c] = [conn[c] EXCEPT !.pings = @ + 1, !.pongs = @ + 1,
                                               !.disabled = FALSE]
                /\ \A d \in Conns \ {c} : conn'[d] = conn[d]
                /\ server' = server
                /\ sink' = sink]_vars

\* C36 witness: a session has answered a Ping while another session is
\* admitted as well.
C36_Witness ==
    \E c, d \in Conns :
        /\ c # d /\ conn[c].pings = 1 /\ conn[c].pongs = 1
        /\ conn[d].pc = "loop" /\ InRegistry(d)

\* C37: a status that reports the server running reports it advertised as
\* well, and with the slot empty the status is not running, not advertised,
\* with no clients.
C37_StatusConsistent ==
    /\ get_lan_server_status.is_running => get_lan_server_status.mdns_registered
    /\ slot = 0 =>
        /\ ~get_lan_server_status.is_running
        /\ ~get_lan_server_status.mdns_registered
        /\ get_lan_server_status.connected_clients = {}

\* C37 witness: the second server of a run is reported running and
\* advertised with a client, after the first was stopped.
C37_Witness ==
    /\ slot = 2 /\ ~server[1].is_running
    /\ get_lan_server_status.is_running /\ get_lan_server_status.mdns_registered
    /\ get_lan_server_status.connected_clients # {}

\* The connection notifications in the sink, in order.
ConnectionEvents ==
    SelectSeq(sink, LAMBDA e : e[1] \in {"lan_connected", "lan_disconnected"})

\* C38: the client status is all or nothing: connected with address, server
\* info and connection time, or not connected with none of the three.
C38_ClientStatusConsistent ==
    LET st == get_lan_client_status IN
    \/ st.is_connected /\ st.server_address /\ st.server_info /\ st.connected_at
    \/ ~st.is_connected /\ ~st.server_address /\ ~st.server_info /\ ~st.connected_at

\* C39: whenever the most recent connection notification in the sink is
\* lan_disconnected, the client status is not connected.
C39_LastNotificationTrue ==
    (ConnectionEvents # <<>> /\ ConnectionEvents[Len(ConnectionEvents)][1] = "lan_disconnected")
        => ~get_lan_client_status.is_connected

\* C40: a step that clears the is_connected flag of a LanClient is either
\* the exit of that client's own session task, which emits its
\* lan_disconnected, or a disconnect of that client while it is in the slot.
C40_OwnFlagOnly ==
    [][\A k \in Clients :
        (lanClient[k].is_connected /\ ~lanClient'[k].is_connected) =>
            \/ /\ lanClient[k].pc = "loop" /\ lanClient'[k].pc = "exited"
               /\ sink' = Append(sink, <<"lan_disconnected", k>>)
            \/ /\ clientSlot = k
               /\ lanClient'[k] = LanClient_disconnect(lanClient[k])]_vars

\* C40 witness: the task of a replaced connection has ended after the new
\* connection was made, and the new connection is still connected.
C40_Witness ==
    /\ clientSlot = 2 /\ lanClient[2].is_connected /\ lanClient[2].pc = "loop"
    /\ lanClient[1].pc = "exited"
    /\ ConnectionEvents = <<(<<"lan_connected", 1>>), (<<"lan_connected", 2>>),
                            (<<"lan_disconnected", 1>>)>>

====
